---------------------------- MODULE Spec2Model ----------------------------
(***************************************************************************)
(* A model of status.py: the metric readers (sizeof_fmt, get_memory,       *)
(* get_uptime, get_load, get_df, get_storage) as operators, and            *)
(* SystemInfoRequestHandler.do_GET as a state machine over one connection  *)
(* at a time (HTTPServer.serve_forever handles connections sequentially).  *)
(*                                                                         *)
(* Numbers.  A byte count is a record [m, e] standing for m * 1024^e with  *)
(* 0 <= m < 1024^2, so that 1024^8 and beyond are within reach of 32-bit   *)
(* arithmetic; every such value is exactly representable as a Python       *)
(* float, and division by 1024.0 is exact on it (e decreases by one).      *)
(* Decimal values printed or rounded to one decimal place are integers     *)
(* counting tenths.                                                        *)
(*                                                                         *)
(* Strings that the code inspects character by character (mount paths,     *)
(* derived mount names, the percent column of df) are sequences of         *)
(* one-character strings.  Other strings are TLA+ strings.                 *)
(***************************************************************************)
EXTENDS Integers, Sequences, FiniteSets, TLC

VARIABLES
    config,   \* self.server.config: vars(parser.parse_args()), immutable
    host,     \* what sys.platform / platform.* / os.path / df answer
    req,      \* the request being handled: self.path split into path, query
    pc,       \* position of do_GET for the current connection
    wire,     \* what has reached the client socket, one element per write
    result,   \* the local dict `result` of do_GET
    calls,    \* the readers invoked while handling the current request
    input,    \* argument of the reader under test (reader specifications)
    output    \* its return value, or the exception it raised

vars == <<config, host, req, pc, wire, result, calls, input, output>>

(***************************************************************************)
(* Bounds of the model.                                                    *)
(***************************************************************************)
MaxExp == 8        \* byte counts m * 1024^e with e in 0..MaxExp
MaxKb == 6         \* MemTotal / MemAvailable values in 0..MaxKb kB
MaxMounts == 2     \* length of the --storage list in the storage reader spec
MaxQuery == 2      \* number of fields in a request's query string

(***************************************************************************)
(* Program constants.                                                      *)
(***************************************************************************)
Base == 1024       \* the step of sizeof_fmt, and kB -> bytes in get_memory

RECURSIVE Pow(_, _)
Pow(b, k) == IF k = 0 THEN 1 ELSE b * Pow(b, k - 1)

Num(m, e) == [m |-> m, e |-> e]

(***************************************************************************)
(* Dicts.  A Python dict is a sequence of [k, v] pairs in insertion order; *)
(* d[k] = v replaces the value of an existing key in place and appends a   *)
(* new key at the end.                                                     *)
(***************************************************************************)
DictKeys(d) == {d[i].k : i \in DOMAIN d}

DictGet(d, key) == d[CHOOSE i \in DOMAIN d : d[i].k = key].v

DictSet(d, key, val) ==
    IF key \in DictKeys(d)
    THEN [i \in DOMAIN d |-> IF d[i].k = key THEN [k |-> key, v |-> val] ELSE d[i]]
    ELSE Append(d, [k |-> key, v |-> val])

(***************************************************************************)
(* Outcome of a call: a returned value or a raised exception.              *)
(***************************************************************************)
Return(val) == [raised |-> FALSE, value |-> val]
Raise(exc) == [raised |-> TRUE, value |-> [exception |-> exc]]

(***************************************************************************)
(* sizeof_fmt                                                              *)
(***************************************************************************)
Units == <<"", "Ki", "Mi", "Gi", "Ti", "Pi", "Ei", "Zi">>

\* an off-by-one threshold: abs(num) <= 1024.0
LessThanBase_inclusive(num) ==
    \/ num.m = 0
    \/ num.e = 0 /\ num.m <= Base
    \/ num.e = 1 /\ num.m = 1
    \/ num.e < 0

\* abs(num) < 1024.0 for num = m * 1024^e, 0 <= m < 1024^2
LessThanBase(num) ==
    \/ num.m = 0
    \/ num.e = 0 /\ num.m < Base
    \/ num.e < 0

\* num /= 1024.0
DivBase(num) == Num(num.m, num.e - 1)

\* The value m * 1024^e (e >= -1) as "%.1f" prints it, counted in tenths
\* when it has a fractional part: the exact value rounded to the nearest
\* tenth, an exact tie to the even tenth (binary floats are formatted
\* correctly rounded, ties to even).
RoundedTenths(num) ==
    LET scaled == 10 * num.m
        q == scaled \div Base
        r == scaled % Base
    IN  IF 2 * r > Base \/ (2 * r = Base /\ q % 2 = 1) THEN q + 1 ELSE q

Whole(num) ==
    IF num.m = 0 THEN 0
    ELSE IF num.e >= 0 THEN num.m * Pow(Base, num.e)
    ELSE RoundedTenths(num) \div 10

Tenth(num) ==
    IF num.e >= 0 THEN 0 ELSE RoundedTenths(num) % 10

\* "%3.1f %s%s" % (num, unit, suffix) and "%.1f%s%s" % (num, 'Yi', suffix)
FormatOneDecimal(num, sep, unit, suffix) ==
    [whole |-> Whole(num), tenth |-> Tenth(num),
     sep |-> sep, unit |-> unit, suffix |-> suffix]

RECURSIVE sizeof_fmt_loop(_, _)
sizeof_fmt_loop(num, i) ==
    IF i > Len(Units)
    THEN FormatOneDecimal(num, "", "Yi", "B")
    ELSE IF LessThanBase(num)
         THEN FormatOneDecimal(num, " ", Units[i], "B")
         ELSE sizeof_fmt_loop(DivBase(num), i + 1)

sizeof_fmt(num) == sizeof_fmt_loop(num, 1)

(***************************************************************************)
(* get_memory.  /proc/meminfo is a sequence of lines [label, kb]; a line   *)
(* "MemTotal:   16384 kB" is [label |-> "MemTotal", kb |-> 16384].         *)
(***************************************************************************)
\* re.compile(label + r":.*?(\d+)").findall(data): the number of every
\* line that carries the label, in file order
findall(label, data) ==
    LET hits == SelectSeq(data, LAMBDA line : line.label = label)
    IN  [i \in DOMAIN hits |-> hits[i].kb]

\* float(m[0]) * 1024
KbToBytes(kb) == Num(kb, 1)

\* The integer a byte count stands for (small counts only).
Bytes(num) == num.m * Pow(Base, num.e)

\* used bytes computed the wrong way round
MemUsed_swapped(total, avail) == Bytes(avail) - Bytes(total)

\* used = total - avail
MemUsed(total, avail) == Bytes(total) - Bytes(avail)

\* round(n / d, 1) for d > 0, in tenths.  The quotient is a correctly
\* rounded float and round() rounds that float correctly, ties to even.  A
\* quotient half-way between two tenths is a float exactly when it is a
\* multiple of 1/4 (then the even tenth is taken); otherwise the float
\* nearest to it lies to one side of the half-way point, and either
\* neighbouring tenth is allowed for.
RoundOneDecimal(n, d) ==
    LET q == (10 * n) \div d
        r == (10 * n) % d
    IN  IF 2 * r < d THEN {q}
        ELSE IF 2 * r > d THEN {q + 1}
        ELSE IF (2 * q + 1) % 5 = 0
             THEN {IF q % 2 = 0 THEN q ELSE q + 1}
             ELSE {q, q + 1}

Literal(text) == [literal |-> text]

\* The outcomes of get_memory() on a host: one, or two where the rounding
\* of percent_used is left open.
get_memory(linux, data) ==
    IF ~linux
    THEN {Return([total |-> Literal("0 Bytes"), avail |-> Literal("0 Bytes"),
                  percent_used |-> 1000])}
    ELSE LET mt == findall("MemTotal", data)
             ma == findall("MemAvailable", data)
         IN  IF mt = <<>> \/ ma = <<>>
             THEN {Raise("IndexError")}
             ELSE LET total == KbToBytes(mt[1])
                      avail == KbToBytes(ma[1])
                      used == MemUsed(total, avail)
                  IN  IF Bytes(total) = 0
                      THEN {Raise("ZeroDivisionError")}
                      ELSE {Return([total |-> sizeof_fmt(total),
                                    avail |-> sizeof_fmt(avail),
                                    percent_used |-> p]) :
                                p \in RoundOneDecimal(100 * used, Bytes(total))}

(***************************************************************************)
(* get_df and get_storage.  A host answers os.path and df questions:       *)
(*   host.fs      what each directory path names: "dir", "file", "missing" *)
(*   host.df      how df behaves for mounts other than "/": "ok", "fails"  *)
(*                (non-zero exit or no df at all), or "dash" (a "-" in     *)
(*                the Use% column)                                         *)
(***************************************************************************)
Root == <<"/">>

RECURSIVE lstrip(_, _)
lstrip(str, c) ==
    IF str # <<>> /\ Head(str) = c THEN lstrip(Tail(str), c) ELSE str

RECURSIVE rstrip(_, _)
rstrip(str, c) ==
    IF str # <<>> /\ str[Len(str)] = c
    THEN rstrip(SubSeq(str, 1, Len(str) - 1), c)
    ELSE str

\* str.strip(c)
strip(str, c) == rstrip(lstrip(str, c), c)

\* str.replace(old, new) for one-character old and new
replace(str, old, new) ==
    [i \in DOMAIN str |-> IF str[i] = old THEN new ELSE str[i]]

\* a derivation that only strips the slashes
MountName_no_replace(mnt) ==
    IF mnt = Root THEN <<"r", "o", "o", "t">> ELSE strip(mnt, "/")

\* the key of a mount in the storage map
MountName(mnt) ==
    IF mnt = Root
    THEN <<"r", "o", "o", "t">>
    ELSE replace(strip(mnt, "/"), "/", "-")

\* The directory a path resolves to: trailing slashes do not matter.
Resolve(mnt) == IF rstrip(mnt, "/") = <<>> THEN Root ELSE rstrip(mnt, "/")

PathKind(h, mnt) == IF Resolve(mnt) = Root THEN "dir" ELSE h.fs[Resolve(mnt)]

\* os.path.exists(mnt)
path_exists(h, mnt) == PathKind(h, mnt) # "missing"

\* os.path.isdir(mnt)
path_isdir(h, mnt) == PathKind(h, mnt) = "dir"

Digits == <<"0", "1", "2", "3", "4", "5", "6", "7", "8", "9">>

IsDigit(c) == \E d \in DOMAIN Digits : Digits[d] = c

DigitValue(c) == (CHOOSE d \in DOMAIN Digits : Digits[d] = c) - 1

RECURSIVE DecimalValue(_)
DecimalValue(chars) ==
    IF chars = <<>> THEN 0
    ELSE 10 * DecimalValue(SubSeq(chars, 1, Len(chars) - 1))
         + DigitValue(chars[Len(chars)])

\* int(text) for a column of df: a number column holds its byte count, any
\* other column its characters
ParseInt(field) ==
    IF field.number THEN Return(field.n)
    ELSE IF field.chars # <<>> /\ \A i \in DOMAIN field.chars : IsDigit(field.chars[i])
         THEN Return(DecimalValue(field.chars))
         ELSE Raise("ValueError")

NumberField(n) == [number |-> TRUE, n |-> n, chars |-> <<>>]
TextField(chars) == [number |-> FALSE, n |-> Num(0, 0), chars |-> chars]

\* The data line of `df -B 1 mnt`, split into columns.
DfSizes(mnt) ==
    IF Resolve(mnt) = Root
    THEN <<Num(8, 3), Num(2, 3), Num(6, 3), <<"2", "5", "%">>>>
    ELSE IF Len(Resolve(mnt)) = 2
    THEN <<Num(1536, 2), Num(1536, 2), Num(0, 0), <<"1", "0", "0", "%">>>>
    ELSE IF Resolve(mnt)[3] = "/"
    THEN <<Num(4, 4), Num(1, 4), Num(3, 4), <<"2", "5", "%">>>>
    ELSE <<Num(1000, 2), Num(70, 2), Num(930, 2), <<"7", "%">>>>

DfLine(h, mnt) ==
    LET sizes == DfSizes(mnt)
        dash == h.df = "dash" /\ Resolve(mnt) # Root
    IN  << TextField(<<"d", "e", "v">>),
           NumberField(sizes[1]), NumberField(sizes[2]), NumberField(sizes[3]),
           TextField(IF dash THEN <<"-">> ELSE sizes[4]),
           TextField(mnt) >>

\* subprocess.check_output(["df", "-B 1", mnt]) ... .split("\n")[1].split()
check_output_df(h, mnt) ==
    IF h.df = "fails" /\ Resolve(mnt) # Root
    THEN Raise("CalledProcessError")
    ELSE Return(DfLine(h, mnt))

get_df(h, mnt) ==
    LET d == check_output_df(h, mnt)
    IN  IF d.raised THEN d
        ELSE LET vals == d.value
                 total == ParseInt(vals[2])
                 used == ParseInt(vals[3])
                 avail == ParseInt(vals[4])
                 percent_used ==
                     ParseInt(TextField(SubSeq(vals[5].chars, 1,
                                               Len(vals[5].chars) - 1)))
             IN  IF total.raised THEN total
                 ELSE IF used.raised THEN used
                 ELSE IF avail.raised THEN avail
                 ELSE IF percent_used.raised THEN percent_used
                 ELSE Return([total_bytes |-> total.value,
                              total |-> sizeof_fmt(total.value),
                              used_bytes |-> used.value,
                              used |-> sizeof_fmt(used.value),
                              avail_bytes |-> avail.value,
                              avail |-> sizeof_fmt(avail.value),
                              percent_used |-> percent_used.value])

\* os.path.exists(mnt) and os.path.isdir(mnt)
IsReported(h, mnt) == path_exists(h, mnt) /\ path_isdir(h, mnt)

\* The loop of get_storage from the i-th mount on, with the map built so far.
RECURSIVE get_storage_loop(_, _, _, _)
get_storage_loop(h, mounts, i, acc) ==
    IF i > Len(mounts) THEN Return(acc)
    ELSE LET mnt == mounts[i]
         IN  IF IsReported(h, mnt)
             THEN LET info == get_df(h, mnt)
                  IN  IF info.raised THEN info
                      ELSE get_storage_loop(h, mounts, i + 1,
                               DictSet(acc, MountName(mnt), info.value))
             ELSE get_storage_loop(h, mounts, i + 1, acc)

get_storage(h, mounts) == get_storage_loop(h, mounts, 1, <<>>)

(***************************************************************************)
(* get_platform, get_uptime, get_load.  A line of a /proc file is a        *)
(* sequence of whitespace-separated tokens; a token is a number (counted   *)
(* in hundredths) or text that float() rejects.                            *)
(***************************************************************************)
NumberToken(n) == [number |-> TRUE, n |-> n]
TextToken == [number |-> FALSE, n |-> 0]

\* float(token)
ParseFloat(token) == IF token.number THEN Return(token.n) ELSE Raise("ValueError")

get_platform(h) == Return([platform |-> h.machine, system |-> h.system])

get_uptime(h, line, now) ==
    IF ~h.linux
    THEN Return([uptime |-> 0, upsince |-> now])
    ELSE IF line = <<>>
    THEN Raise("IndexError")
    ELSE LET up_seconds == ParseFloat(line[1])
         IN  IF up_seconds.raised THEN up_seconds
             ELSE Return([uptime |-> up_seconds.value,
                          upsince |-> now - up_seconds.value])

\* d[:3]
FirstThree(d) == SubSeq(d, 1, IF Len(d) < 3 THEN Len(d) ELSE 3)

get_load(h, d) ==
    IF ~h.linux
    THEN Return([load1 |-> 0, load5 |-> 0, load15 |-> 0])
    ELSE LET head == FirstThree(d)
             load == [i \in DOMAIN head |-> ParseFloat(head[i])]
         IN  IF \E i \in DOMAIN load : load[i].raised
             THEN Raise("ValueError")
             ELSE IF Len(load) < 3
             THEN Raise("IndexError")
             ELSE Return([load1 |-> load[1].value, load5 |-> load[2].value,
                          load15 |-> load[3].value])

(***************************************************************************)
(* The request: self.path is a path and a query string; the query string   *)
(* is a sequence of fields name=value, the value still percent-encoded.    *)
(***************************************************************************)
\* urllib.parse.unquote on the values the model sends
unquote(value) == IF value = "a%62c" THEN "abc" ELSE value

\* urlparse(self.path).query
urlparse_query(request) == request.query

\* a parser that keeps blank values
KeepsField_blank_too(field) == TRUE

\* parse_qs drops a field whose value is blank (keep_blank_values=False)
KeepsField(field) == field.value # ""

\* parse_qs(query): a dict from each name to the list of its decoded,
\* non-blank values, in the order of the query string
RECURSIVE parse_qs_loop(_, _, _)
parse_qs_loop(query, i, acc) ==
    IF i > Len(query) THEN acc
    ELSE LET field == query[i]
             old == IF field.name \in DictKeys(acc)
                    THEN DictGet(acc, field.name) ELSE <<>>
         IN  IF KeepsField(field)
             THEN parse_qs_loop(query, i + 1,
                      DictSet(acc, field.name, Append(old, unquote(field.value))))
             ELSE parse_qs_loop(query, i + 1, acc)

parse_qs(query) == parse_qs_loop(query, 1, <<>>)

\* provided_key: <<>> for None, <<value>> for a string
ProvidedKey(request) ==
    LET params == parse_qs(urlparse_query(request))
    IN  IF "key" \in DictKeys(params) /\ DictGet(params, "key") # <<>>
        THEN <<DictGet(params, "key")[1]>>
        ELSE <<>>

\* a check that runs whatever the configured key is
KeyConfigured_always(cfg) == TRUE

\* config["key"] != "none"
KeyConfigured(cfg) == cfg.key # "none"

\* a comparison that lets a request without a key through
KeyMismatch_only_wrong(cfg, provided) == provided # <<>> /\ provided # <<cfg.key>>

\* provided_key != config["key"]
KeyMismatch(cfg, provided) == provided # <<cfg.key>>

Unauthorized(cfg, request) ==
    KeyConfigured(cfg) /\ KeyMismatch(cfg, ProvidedKey(request))

(***************************************************************************)
(* What do_GET writes.  send_response and send_header fill the header      *)
(* buffer; end_headers flushes it to wfile, which is unbuffered, so the    *)
(* status line and headers reach the client at end_headers().  The         *)
(* request line is taken to carry an HTTP version (HTTP/1.x), for which    *)
(* http.server sends a status line and headers.                            *)
(***************************************************************************)
HeaderBlock(status, ctype) == [kind |-> "head", status |-> status, ctype |-> ctype]
TextBody(text) == [kind |-> "body", data |-> [text |-> text]]
JsonBody(tokens) == [kind |-> "body", data |-> [json |-> tokens]]

\* json.dumps(d) for a dict with string keys: the tokens of the object,
\* members in insertion order
RECURSIVE json_members(_, _)
json_members(d, i) ==
    IF i > Len(d) THEN <<>>
    ELSE (IF i > 1 THEN <<[tok |-> ","]>> ELSE <<>>)
         \o <<[tok |-> "key", s |-> d[i].k], [tok |-> ":"], [tok |-> "value", v |-> d[i].v]>>
         \o json_members(d, i + 1)

json_dumps(d) == <<[tok |-> "{"]>> \o json_members(d, 1) \o <<[tok |-> "}"]>>

\* headers held back until the body is ready
AuthorizedHead_deferred == <<>>

\* send_response(200); send_header("Content-type", "application/json");
\* end_headers()
AuthorizedHead == <<HeaderBlock(200, "application/json")>>

RejectedResponse == <<HeaderBlock(401, "text/plain"), TextBody("Unauthorized.")>>

\* a storage section that is always on
Enabled_storage_always(cfg, category) ==
    CASE category = "platform" -> cfg.platform
      [] category = "uptime" -> cfg.uptime
      [] category = "memory" -> cfg.memory
      [] category = "load" -> cfg.load
      [] category = "storage" -> TRUE

\* if config[category]: a flag, or a non-empty mount list
Enabled(cfg, category) ==
    CASE category = "platform" -> cfg.platform
      [] category = "uptime" -> cfg.uptime
      [] category = "memory" -> cfg.memory
      [] category = "load" -> cfg.load
      [] category = "storage" -> cfg.storage # <<>>

\* an order that writes the body before load and storage are read
After_early_write(position) ==
    CASE position = "platform" -> "uptime"
      [] position = "uptime" -> "memory"
      [] position = "memory" -> "write"
      [] position = "load" -> "storage"
      [] position = "storage" -> "write"

\* an order that reads the load before the memory
After_load_first(position) ==
    CASE position = "platform" -> "uptime"
      [] position = "uptime" -> "load"
      [] position = "load" -> "memory"
      [] position = "memory" -> "storage"
      [] position = "storage" -> "write"

\* The statement that follows a reader's statement in do_GET.
After(position) ==
    CASE position = "platform" -> "uptime"
      [] position = "uptime" -> "memory"
      [] position = "memory" -> "load"
      [] position = "load" -> "storage"
      [] position = "storage" -> "write"

Call(reader, args) == [reader |-> reader, args |-> args]

(***************************************************************************)
(* What the variables of the request handler hold while no connection is   *)
(* open, and what the reader specifications leave them at.                 *)
(***************************************************************************)
NoRequest == [path |-> "", query |-> <<>>]
NoValue == [none |-> TRUE]
Pending == [pending |-> TRUE]

HandlerIdle ==
    /\ req = NoRequest
    /\ pc = "idle"
    /\ wire = <<>>
    /\ result = <<>>
    /\ calls = <<>>

DefaultConfig ==
    [key |-> "none", platform |-> FALSE, uptime |-> FALSE, memory |-> FALSE,
     load |-> FALSE, storage |-> <<>>]

handlerVars == <<config, host, req, pc, wire, result, calls>>

(***************************************************************************)
(* SpecFmt: sizeof_fmt applied to a byte count.                            *)
(***************************************************************************)
Mantissas ==
    {0, 1, 512, 1023, 1024, 1075, 1076, 1280, 1536, 1792, 2047,
     1048524, 1048525, 1048575}

FmtInputs == {Num(m, e) : m \in Mantissas, e \in 0..MaxExp}

InitFmt ==
    /\ config = DefaultConfig
    /\ host = NoValue
    /\ HandlerIdle
    /\ input \in FmtInputs
    /\ output = Pending

CallSizeofFmt ==
    /\ output = Pending
    /\ output' = sizeof_fmt(input)
    /\ UNCHANGED <<handlerVars, input>>

NextFmt == CallSizeofFmt

SpecFmt == InitFmt /\ [][NextFmt]_vars

\* The byte count m * 1024^e is the integer n (n < 1024^2).
IsValue(num, n) ==
    \/ num.e = 0 /\ num.m = n
    \/ num.e = 1 /\ num.m * Base = n

\* m * 1024^e >= 1024^p
AtLeastPow(num, p) ==
    num.m # 0 /\ (num.e >= p \/ (num.e = p - 1 /\ num.m >= Base))

UnitNames == <<"B", "KiB", "MiB", "GiB", "TiB", "PiB", "EiB", "ZiB", "YiB">>

\* The number of times a value is divided by 1024 before its magnitude is
\* below 1024, at most 8 times.
Divisions(num) ==
    LET d == IF num.m = 0 THEN 0 ELSE IF num.m < Base THEN num.e ELSE num.e + 1
    IN  IF d > 8 THEN 8 ELSE d

ShownUnit(out) ==
    CHOOSE u \in 1..Len(UnitNames) :
        \/ out.unit = "" /\ u = 1
        \/ out.unit = "Ki" /\ u = 2
        \/ out.unit = "Mi" /\ u = 3
        \/ out.unit = "Gi" /\ u = 4
        \/ out.unit = "Ti" /\ u = 5
        \/ out.unit = "Pi" /\ u = 6
        \/ out.unit = "Ei" /\ u = 7
        \/ out.unit = "Zi" /\ u = 8
        \/ out.unit = "Yi" /\ u = 9

\* The printed number is the value divided k times, to the nearest tenth.
NearestTenth(num, k, out) ==
    LET x == num.e - k
    IN  IF num.m = 0
        THEN out.whole = 0 /\ out.tenth = 0
        ELSE IF x >= 0
        THEN out.whole = num.m * Pow(Base, x) /\ out.tenth = 0
        ELSE LET shown == 10 * out.whole + out.tenth
                 diff == 10 * num.m - Base * shown
             IN  x = -1 /\ 2 * diff <= Base /\ 2 * diff >= -Base

\* C7: sizeof_fmt divides by 1024 while the magnitude is >= 1024, stepping
\* through B, KiB, ..., YiB, and prints the value with one decimal place;
\* 0 gives "0.0 B", 1024 gives "1.0 KiB", 1536 gives "1.5 KiB", and every
\* input >= 1024^8 is shown in the Yi unit.
C7_SizeofFmt ==
    output # Pending =>
        /\ output.suffix = "B"
        /\ ShownUnit(output) = Divisions(input) + 1
        /\ NearestTenth(input, Divisions(input), output)
        /\ output.tenth \in 0..9
        /\ IsValue(input, 0) =>
              output = [whole |-> 0, tenth |-> 0, sep |-> " ", unit |-> "", suffix |-> "B"]
        /\ IsValue(input, 1024) =>
              output = [whole |-> 1, tenth |-> 0, sep |-> " ", unit |-> "Ki", suffix |-> "B"]
        /\ IsValue(input, 1536) =>
              output = [whole |-> 1, tenth |-> 5, sep |-> " ", unit |-> "Ki", suffix |-> "B"]
        /\ AtLeastPow(input, 8) => output.unit = "Yi"

\* sizeof_fmt has formatted 1536 * 1024^8 bytes as "1536.0YiB".
C7_Witness ==
    /\ output # Pending
    /\ AtLeastPow(input, 8)
    /\ input.m = 1536
    /\ output.whole = 1536 /\ output.unit = "Yi"

(***************************************************************************)
(* SpecMem: get_memory on a host whose /proc/meminfo may lack either field *)
(***************************************************************************)
KbValues == (0..MaxKb) \cup {16, 80, 2000}

MemInfos ==
    {<<[label |-> "MemTotal", kb |-> t], [label |-> "MemFree", kb |-> 0],
       [label |-> "MemAvailable", kb |-> a]>> : t \in KbValues, a \in KbValues}
    \cup {<<[label |-> "MemTotal", kb |-> t], [label |-> "MemFree", kb |-> 0]>> :
             t \in KbValues}
    \cup {<<[label |-> "MemFree", kb |-> 0], [label |-> "MemAvailable", kb |-> a]>> :
             a \in KbValues}

MemInputs ==
    {[linux |-> TRUE, data |-> d] : d \in MemInfos}
    \cup {[linux |-> FALSE, data |-> <<>>]}

InitMem ==
    /\ config = DefaultConfig
    /\ host = NoValue
    /\ HandlerIdle
    /\ input \in MemInputs
    /\ output = Pending

CallGetMemory ==
    /\ output = Pending
    /\ output' \in get_memory(input.linux, input.data)
    /\ UNCHANGED <<handlerVars, input>>

NextMem == CallGetMemory

SpecMem == InitMem /\ [][NextMem]_vars

\* The kB value of the first line of the input that carries the label.
ParsedKb(label) ==
    LET i == CHOOSE i \in DOMAIN input.data :
                 /\ input.data[i].label = label
                 /\ \A j \in 1..(i - 1) : input.data[j].label # label
    IN  input.data[i].kb

BothParsed ==
    /\ input.linux
    /\ \E i \in DOMAIN input.data : input.data[i].label = "MemTotal"
    /\ \E i \in DOMAIN input.data : input.data[i].label = "MemAvailable"

\* p tenths is 100 * (t - a) / t rounded to one decimal place.
IsRoundedPercent(p, t, a) ==
    LET diff == 1000 * (t - a) - p * t
    IN  2 * diff <= t /\ 2 * diff >= -t

\* C6 as stated: for every total and available value parsed from MemTotal
\* and MemAvailable, percent_used is within [0,100] and equals
\* round(100*(total-avail)/total, 1).
C6_AsStated ==
    (output # Pending /\ BothParsed) =>
        /\ ~output.raised
        /\ output.value.percent_used \in 0..1000
        /\ IsRoundedPercent(output.value.percent_used,
                            ParsedKb("MemTotal"), ParsedKb("MemAvailable"))

\* C6 as amended: for every parsed pair with total > 0, percent_used equals
\* round(100*(total-avail)/total, 1) and is at most 100; it is within
\* [0,100] whenever avail <= total; with total = 0 the reader raises
\* ZeroDivisionError and returns no percentage.
C6_Amended ==
    (output # Pending /\ BothParsed) =>
        LET t == ParsedKb("MemTotal")
            a == ParsedKb("MemAvailable")
        IN  IF t = 0
            THEN output = Raise("ZeroDivisionError")
            ELSE /\ ~output.raised
                 /\ IsRoundedPercent(output.value.percent_used, t, a)
                 /\ output.value.percent_used <= 1000
                 /\ a <= t => output.value.percent_used >= 0

\* get_memory has returned 66.7 for 3 kB total and 1 kB available.
C6_Witness ==
    /\ output # Pending
    /\ BothParsed
    /\ ParsedKb("MemTotal") = 3
    /\ ParsedKb("MemAvailable") = 1
    /\ ~output.raised
    /\ output.value.percent_used = 667

(***************************************************************************)
(* SpecStorage: get_storage on a mount list and a host.                    *)
(***************************************************************************)
Data == <<"/", "d">>
DataSlash == <<"/", "d", "/">>
VarLog == <<"/", "v", "/", "l">>
VarDashLog == <<"/", "v", "-", "l">>

MountPaths == {Root, Data, DataSlash, VarLog, VarDashLog}

Directories == {Data, VarLog, VarDashLog}

RECURSIVE SeqsUpTo(_, _)
SeqsUpTo(S, n) ==
    IF n = 0 THEN {<<>>}
    ELSE LET shorter == SeqsUpTo(S, n - 1)
         IN  shorter \cup {Append(q, x) : q \in shorter, x \in S}

StorageHosts ==
    {[fs |-> f, df |-> d] :
        f \in [Directories -> {"dir", "file", "missing"}],
        d \in {"ok", "fails", "dash"}}

StorageInputs ==
    {[mounts |-> m, host |-> h] : m \in SeqsUpTo(MountPaths, MaxMounts), h \in StorageHosts}

InitStorage ==
    /\ config = DefaultConfig
    /\ host = NoValue
    /\ HandlerIdle
    /\ input \in StorageInputs
    /\ output = Pending

CallGetStorage ==
    /\ output = Pending
    /\ output' = get_storage(input.host, input.mounts)
    /\ UNCHANGED <<handlerVars, input>>

NextStorage == CallGetStorage

SpecStorage == InitStorage /\ [][NextStorage]_vars

\* The indices of the configured mounts that exist and are directories.
Present == {i \in DOMAIN input.mounts : PathKind(input.host, input.mounts[i]) = "dir"}

\* The derived name of a mount, case by case.
DerivedName(mnt) ==
    CASE mnt = Root -> <<"r", "o", "o", "t">>
      [] mnt = Data -> <<"d">>
      [] mnt = DataSlash -> <<"d">>
      [] mnt = VarLog -> <<"v", "-", "l">>
      [] mnt = VarDashLog -> <<"v", "-", "l">>

\* C5 as stated: the map get_storage returns has one entry per configured
\* mount path that exists and is a directory, keyed by its derived name,
\* and none for a path that does not exist or is not a directory.
C5_AsStated ==
    (output # Pending /\ ~output.raised) =>
        /\ DictKeys(output.value) = {DerivedName(input.mounts[i]) : i \in Present}
        /\ Len(output.value) = Cardinality({Resolve(input.mounts[i]) : i \in Present})

\* C5 as amended: the map get_storage returns has one entry per derived
\* name of the configured mount paths that exist and are directories, and
\* no other entry; the entry of a name is the df record of the last such
\* path in the list with that name; a path that does not exist or is not a
\* directory adds no entry and raises no error (an error comes only from df
\* on a path that is a directory).
C5_Amended ==
    output # Pending =>
        IF output.raised
        THEN input.host.df # "ok"
             /\ \E i \in Present : Resolve(input.mounts[i]) # Root
        ELSE /\ DictKeys(output.value) = {DerivedName(input.mounts[i]) : i \in Present}
             /\ Len(output.value) = Cardinality(DictKeys(output.value))
             /\ \A i \in Present :
                    (\A j \in Present : j > i =>
                        DerivedName(input.mounts[j]) # DerivedName(input.mounts[i]))
                    => DictGet(output.value, DerivedName(input.mounts[i])).total_bytes
                         = DfSizes(input.mounts[i])[1]

\* get_storage has returned a map with key "root" and no key "data" for the
\* mounts "/" and "/d" on a host where "/d" does not exist.
C5_Witness ==
    /\ output # Pending
    /\ input.mounts = <<Root, Data>>
    /\ input.host.fs[Data] = "missing"
    /\ ~output.raised
    /\ DictKeys(output.value) = {<<"r", "o", "o", "t">>}

(***************************************************************************)
(* Spec: the server.  Init is the state after parse_args() and the         *)
(* construction of SystemInfoServer; every action is a stretch of do_GET   *)
(* between two points where the client or a reader can observe it.         *)
(***************************************************************************)
Keys == {"none", "abc", ""}

Categories == <<"platform", "uptime", "memory", "load", "storage">>

MountLists == {<<>>, <<Root>>, <<Root, Data>>}

Configs ==
    {[key |-> k, platform |-> p, uptime |-> u, memory |-> m, load |-> l, storage |-> st] :
        k \in Keys, p \in BOOLEAN, u \in BOOLEAN, m \in BOOLEAN, l \in BOOLEAN,
        st \in MountLists}

DataOnly == [d \in Directories |-> IF d = Data THEN "dir" ELSE "missing"]

Hosts ==
    {[linux |-> TRUE, machine |-> "x86_64", system |-> "Linux", fs |-> DataOnly, df |-> "ok"],
     [linux |-> TRUE, machine |-> "x86_64", system |-> "Linux", fs |-> DataOnly, df |-> "fails"],
     [linux |-> FALSE, machine |-> "arm64", system |-> "Darwin", fs |-> DataOnly, df |-> "ok"]}

Paths == {"/", "/status"}

Fields ==
    {[name |-> "key", value |-> "abc"], [name |-> "key", value |-> "wrong"],
     [name |-> "key", value |-> ""], [name |-> "key", value |-> "a%62c"],
     [name |-> "other", value |-> "abc"]}

Requests == {[path |-> p, query |-> q] : p \in Paths, q \in SeqsUpTo(Fields, MaxQuery)}

\* What the /proc files may hold when a reader opens them.
UptimeLines == {<<NumberToken(5000), NumberToken(9000)>>, <<>>}

MemInfoSamples ==
    {<<[label |-> "MemTotal", kb |-> 4], [label |-> "MemAvailable", kb |-> 1]>>,
     <<[label |-> "MemTotal", kb |-> 4]>>}

LoadLines ==
    {<<NumberToken(10), NumberToken(20), NumberToken(30), TextToken>>,
     <<NumberToken(10), NumberToken(20)>>}

Clock == {100000}

Init ==
    /\ config \in Configs
    /\ host \in Hosts
    /\ HandlerIdle
    /\ input = NoValue
    /\ output = NoValue

\* handle_one_request: a GET arrives and do_GET is entered
Accept ==
    /\ pc = "idle"
    /\ \E r \in Requests : req' = r
    /\ pc' = "auth"
    /\ UNCHANGED <<config, host, wire, result, calls, input, output>>

\* lines 33-43: the key check fails; 401 and its body are written
Reject ==
    /\ pc = "auth"
    /\ Unauthorized(config, req)
    /\ wire' = wire \o RejectedResponse
    /\ pc' = "done"
    /\ UNCHANGED <<config, host, req, result, calls, input, output>>

\* lines 33-49: the key check passes; 200 and its headers are written
Authorize ==
    /\ pc = "auth"
    /\ ~Unauthorized(config, req)
    /\ wire' = wire \o AuthorizedHead
    /\ result' = <<>>
    /\ pc' = "platform"
    /\ UNCHANGED <<config, host, req, calls, input, output>>

\* if config[category]: result[category] = reader(args)
ReaderStep(category, args, outcome) ==
    /\ pc = category
    /\ IF Enabled(config, category)
       THEN /\ calls' = Append(calls, Call(category, args))
            /\ IF outcome.raised
               THEN pc' = "failed" /\ result' = result
               ELSE pc' = After(category)
                    /\ result' = DictSet(result, category, outcome.value)
       ELSE pc' = After(category) /\ UNCHANGED <<calls, result>>
    /\ UNCHANGED <<config, host, req, wire, input, output>>

ReadPlatform == ReaderStep("platform", <<>>, get_platform(host))

ReadUptime ==
    \E line \in UptimeLines, now \in Clock :
        ReaderStep("uptime", <<>>, get_uptime(host, line, now))

ReadMemory ==
    \E data \in MemInfoSamples :
        \E outcome \in get_memory(host.linux, data) :
            ReaderStep("memory", <<>>, outcome)

ReadLoad ==
    \E d \in LoadLines : ReaderStep("load", <<>>, get_load(host, d))

ReadStorage ==
    ReaderStep("storage", config.storage, get_storage(host, config.storage))

\* line 61: self.wfile.write(bytes(json.dumps(result), "utf8"))
WriteBody ==
    /\ pc = "write"
    /\ wire' = Append(wire, JsonBody(json_dumps(result)))
    /\ pc' = "done"
    /\ UNCHANGED <<config, host, req, result, calls, input, output>>

\* do_GET has returned or raised; the server closes the connection and
\* goes back to accepting
Close ==
    /\ pc \in {"done", "failed"}
    /\ req' = NoRequest
    /\ pc' = "idle"
    /\ wire' = <<>>
    /\ result' = <<>>
    /\ calls' = <<>>
    /\ UNCHANGED <<config, host, input, output>>

Next ==
    \/ Accept
    \/ Reject
    \/ Authorize
    \/ ReadPlatform
    \/ ReadUptime
    \/ ReadMemory
    \/ ReadLoad
    \/ ReadStorage
    \/ WriteBody
    \/ Close

Spec == Init /\ [][Next]_vars

(***************************************************************************)
(* Properties of the server.                                               *)
(***************************************************************************)
\* do_GET has decided between 401 and 200 for the current request.
Decided == pc \notin {"idle", "auth"}

KeyFields == {i \in DOMAIN req.query : req.query[i].name = "key"}

\* The categories the configuration enables.
EnabledSet ==
    (IF config.platform THEN {"platform"} ELSE {})
    \cup (IF config.uptime THEN {"uptime"} ELSE {})
    \cup (IF config.memory THEN {"memory"} ELSE {})
    \cup (IF config.load THEN {"load"} ELSE {})
    \cup (IF Len(config.storage) > 0 THEN {"storage"} ELSE {})

\* The reader invocations of a request that completes: the enabled
\* categories in the fixed order, storage with the configured mount list.
ExpectedCalls ==
    LET order == SelectSeq(<<"platform", "uptime", "memory", "load", "storage">>,
                           LAMBDA c : c \in EnabledSet)
    IN  [i \in DOMAIN order |->
            [reader |-> order[i],
             args |-> IF order[i] = "storage" THEN config.storage ELSE <<>>]]

IsPrefix(a, b) == Len(a) <= Len(b) /\ a = SubSeq(b, 1, Len(a))

Ok200 == [kind |-> "head", status |-> 200, ctype |-> "application/json"]

Sent200 == wire # <<>> /\ wire[1] = Ok200

BodyWrites == {i \in DOMAIN wire : wire[i].kind = "body"}

JsonKeyTokens(tokens) == {i \in DOMAIN tokens : tokens[i].tok = "key"}

JsonKeys(tokens) == {tokens[i].s : i \in JsonKeyTokens(tokens)}

\* C1: with a shared key configured, a request whose query string has no
\* key parameter, or whose key values all differ from the configured key,
\* is answered with 401, text/plain and the body "Unauthorized.", whatever
\* the metric flags and the mount list are.
C1_Unauthorized ==
    (/\ Decided
     /\ config.key # "none"
     /\ \A i \in KeyFields : unquote(req.query[i].value) # config.key)
    => /\ pc = "done"
       /\ wire = << [kind |-> "head", status |-> 401, ctype |-> "text/plain"],
                    [kind |-> "body", data |-> [text |-> "Unauthorized."]] >>

\* A request with a wrong key has been rejected by a server that has the
\* memory section and a mount list configured.
C1_Witness ==
    /\ pc = "done"
    /\ config.key = "abc"
    /\ config.memory /\ config.storage # <<>>
    /\ req.query = <<[name |-> "key", value |-> "wrong"]>>
    /\ wire[1].status = 401

\* C2: with no shared key configured (the key is "none"), every request is
\* answered with status 200, with or without key parameters, and none is
\* answered 401.
C2_NoKeyAlways200 ==
    (Decided /\ config.key = "none") =>
        /\ Sent200
        /\ \A i \in DOMAIN wire : wire[i].kind = "head" => wire[i].status = 200

\* A request with two key parameters has been answered 200 by a server
\* without a shared key.
C2_Witness ==
    /\ pc = "done"
    /\ config.key = "none"
    /\ req.query = <<[name |-> "key", value |-> "wrong"], [name |-> "key", value |-> "abc"]>>
    /\ Sent200

\* C3: the JSON object written as the body of an authorized request has as
\* its top-level keys exactly the enabled categories (storage enabled iff
\* the mount list is non-empty), each once.
C3_ExactlyEnabledKeys ==
    \A i \in BodyWrites :
        Sent200 =>
            /\ JsonKeys(wire[i].data.json) = EnabledSet
            /\ Cardinality(JsonKeyTokens(wire[i].data.json)) = Cardinality(EnabledSet)

\* A body with exactly the keys memory and storage has been written.
C3_Witness ==
    /\ pc = "done"
    /\ Sent200
    /\ EnabledSet = {"memory", "storage"}
    /\ JsonKeys(wire[2].data.json) = {"memory", "storage"}

\* C4: the client never observes a partially assembled JSON object: a
\* request writes at most one body; the JSON body of a 200 response is
\* written in one write, last, and is the serialization of the complete
\* result after every enabled reader has returned; while readers are still
\* to run, or after one has raised, no body byte has been written.
C4_NoPartialObject ==
    /\ Cardinality(BodyWrites) <= 1
    /\ \A i \in BodyWrites :
          Sent200 =>
              /\ pc = "done"
              /\ i = Len(wire) /\ i = 2
              /\ wire[i].data.json = json_dumps(result)
              /\ DictKeys(result) = EnabledSet
              /\ calls = ExpectedCalls
              /\ wire[i].data.json[1].tok = "{"
              /\ wire[i].data.json[Len(wire[i].data.json)].tok = "}"
    /\ (Decided /\ pc # "done") => BodyWrites = {}

\* A body has been written after three or more readers have run.
C4_Witness ==
    /\ pc = "done"
    /\ Sent200
    /\ Len(calls) >= 3
    /\ BodyWrites = {2}

\* C8 as stated: the readers invoked while handling a request are exactly
\* the enabled categories in the fixed order when the request is
\* authorized, and none when it is rejected with 401.
C8_AsStated ==
    pc \in {"done", "failed"} =>
        calls = IF Sent200 THEN ExpectedCalls ELSE <<>>

\* C8 as amended: at every moment the readers invoked so far are a prefix
\* of the enabled categories in the fixed order (storage with the mount
\* list), so a disabled reader is never invoked; a request that completes
\* with 200 has invoked exactly all of them; a request during which a
\* reader raises has invoked them up to and including the one that raised
\* and no later one; a request rejected with 401 has invoked none.
C8_Amended ==
    /\ IsPrefix(calls, ExpectedCalls)
    /\ pc = "done" => calls = IF Sent200 THEN ExpectedCalls ELSE <<>>
    /\ pc = "failed" => calls # <<>>
    /\ ~Sent200 => calls = <<>>

\* A request has completed after the memory, load and storage readers ran.
C8_Witness ==
    /\ pc = "done"
    /\ Sent200
    /\ Len(calls) = 3
    /\ calls[1].reader = "memory"
    /\ calls[3] = [reader |-> "storage", args |-> <<Root, Data>>]

\* C9 as stated: a 200 status is sent only for a request whose body is then
\* written as the complete JSON object; a request during which an enabled
\* reader raises sends no 200 response and no body.
C9_AsStated ==
    /\ pc = "failed" => wire = <<>>
    /\ (pc \in {"done", "failed"} /\ Sent200) => BodyWrites # {}

\* C9 as amended: a request either completes or fails without a body: a
\* JSON body is written only by a request all of whose enabled readers
\* returned, as the complete object, after which the request is done; a
\* request during which an enabled reader raises has by then sent the 200
\* status and the application/json header, and sends nothing else.
C9_Amended ==
    /\ pc = "failed" => (wire = <<Ok200>> /\ calls # <<>>)
    /\ (pc = "done" /\ Sent200) =>
          /\ Len(wire) = 2
          /\ wire[2] = [kind |-> "body", data |-> [json |-> json_dumps(result)]]
          /\ DictKeys(result) = EnabledSet
    /\ BodyWrites # {} => pc = "done"

\* A reader has raised after the 200 status and headers were sent.
C9_Witness ==
    /\ pc = "failed"
    /\ wire = <<Ok200>>
    /\ calls[Len(calls)].reader = "memory"

\* The first non-blank value of a key parameter: <<>> when there is none.
FirstKeyValue ==
    LET nonblank == {i \in KeyFields : req.query[i].value # ""}
    IN  IF nonblank = {} THEN <<>>
        ELSE <<unquote(req.query[CHOOSE i \in nonblank : \A j \in nonblank : i <= j].value)>>

\* C10: with a shared key configured, a request is authorized iff the first
\* non-blank key value of its query string equals the configured key,
\* whatever later key values, the path and the enabled metrics are; a
\* blank key= counts as absent.
C10_FirstKeyDecides ==
    (Decided /\ config.key # "none") =>
        /\ wire[1].kind = "head"
        /\ wire[1].status \in {200, 401}
        /\ wire[1].status = 200 <=> FirstKeyValue = <<config.key>>

\* A request whose first key matches and whose second does not has been
\* authorized.
C10_Witness ==
    /\ pc = "done"
    /\ config.key = "abc"
    /\ req.path = "/status"
    /\ req.query = <<[name |-> "key", value |-> "abc"], [name |-> "key", value |-> "wrong"]>>
    /\ Sent200

=============================================================================
